---- MODULE Spec2Model ----
(***************************************************************************)
(* The consensus-application engine of abci/did/did.go: the State record,  *)
(* the store accessors SetStateDB / DeleteStateDB, the lifecycle entry     *)
(* points Info, InitChain, BeginBlock, DeliverTx, CheckTx, EndBlock,       *)
(* Commit and Query, the recovery scopes of DeliverTx / CheckTx / Query    *)
(* and the commit-hash chain.                                              *)
(*                                                                         *)
(* Strings and byte slices are sequences of tokens (TLA+ strings).  The    *)
(* token "|" is the envelope delimiter, "kvPairKey:" the store prefix and  *)
(* "stateKey" the reserved record key.  hex(sha256(x)) is the symbolic     *)
(* digest <<"sha256(">> \o x \o <<")">>: injective, and never equal to a   *)
(* string that holds no digest brackets (an ideal collision-free hash).    *)
(***************************************************************************)
EXTENDS Integers, Sequences, FiniteSets, TLC

VARIABLES
    app,      \* the DIDApplication: [state, ValUpdates]
    replica,  \* a second, independently initialised DIDApplication
    alive,    \* TRUE while the node process runs (no panic left a call)
    last,     \* the most recent lifecycle call: [call, req, res]
    commits,  \* number of Commit calls made so far
    calls,    \* number of lifecycle calls made so far
    race      \* two store calls run at once: per goroutine [tok, pc, keys, size]

vars == <<app, replica, alive, last, commits, calls, race>>

----------------------------------------------------------------------------
(* Bounds of the model *)

MaxCalls == 4       \* lifecycle calls the consensus engine makes in one run

----------------------------------------------------------------------------
(* Strings *)

stateKey == <<"stateKey">>
kvPairPrefixKey == <<"kvPairKey:">>

prefixKey(key) == kvPairPrefixKey \o key

\* strings.Split(s, sep): the fields between the occurrences of sep
RECURSIVE Split(_, _)
Split(s, sep) ==
    IF \A i \in 1..Len(s) : s[i] # sep
    THEN <<s>>
    ELSE LET i == CHOOSE j \in 1..Len(s) :
                    s[j] = sep /\ \A k \in 1..(j - 1) : s[k] # sep
         IN  <<SubSeq(s, 1, i - 1)>> \o Split(SubSeq(s, i + 1, Len(s)), sep)

\* hex.EncodeToString(sha256(s))
Sha256Hex(s) == <<"sha256(">> \o s \o <<")">>

----------------------------------------------------------------------------
(* The versioned tree: kv is the key/value content, stats the statistics   *)
(* of the replica's own database directory.                                *)

DbHas(db, key) == key \in DOMAIN db.kv

DbSet(db, key, value) ==
    [db EXCEPT !.kv = [k \in (DOMAIN db.kv) \cup {key} |->
                          IF k = key THEN value ELSE db.kv[k]]]

DbRemove(db, key) ==
    [db EXCEPT !.kv = [k \in (DOMAIN db.kv) \ {key} |-> db.kv[k]]]

----------------------------------------------------------------------------
(* State and its persisted form *)

\* json.Marshal(state): the exported fields under their json names
Marshal(st) ==
    [size |-> st.Size, height |-> st.Height, app_hash |-> st.AppHash,
     uncommit_keys |-> st.UncommitKeys, commit_str |-> st.CommitStr]

saveState(st) == [st EXCEPT !.db = DbSet(@, stateKey, Marshal(st))]

\* loadState on a tree that holds no state record
NewState(stats) ==
    [db |-> [kv |-> <<>>, stats |-> stats],
     Size |-> 0, Height |-> 0, AppHash |-> <<>>,
     UncommitKeys |-> <<>>, CommitStr |-> <<>>]

\* json.Unmarshal(stateBytes, &state): the exported fields from their json names
Unmarshal(rec) ==
    [Size |-> rec.size, Height |-> rec.height, AppHash |-> rec.app_hash,
     UncommitKeys |-> rec.uncommit_keys, CommitStr |-> rec.commit_str]

\* loadState on a tree that may hold a state record
loadState(db) ==
    IF DbHas(db, stateKey)
    THEN [db |-> db] @@ Unmarshal(db.kv[stateKey])
    ELSE [db |-> db, Size |-> 0, Height |-> 0, AppHash |-> <<>>,
          UncommitKeys |-> <<>>, CommitStr |-> <<>>]

\* NewDIDApplication on the tree a stopped process left behind
Restart(a) == [state |-> loadState(a.state.db), ValUpdates |-> <<>>]

NewDIDApplication(stats) == [state |-> NewState(stats), ValUpdates |-> <<>>]

\* a SetStateDB that tracks a key once and counts an entry once
SetStateDBOncePerKey(a, key, value) ==
    LET fresh == ~DbHas(a.state.db, prefixKey(key))
        tracked == \E i \in 1..Len(a.state.UncommitKeys) : a.state.UncommitKeys[i] = key
        s1 == IF key # stateKey /\ ~tracked
              THEN [a.state EXCEPT !.UncommitKeys = Append(@, key)]
              ELSE a.state
        s2 == [s1 EXCEPT !.db = DbSet(@, prefixKey(key), value)]
    IN  [a EXCEPT !.state = [s2 EXCEPT !.Size = IF fresh THEN @ + 1 ELSE @]]

SetStateDB(a, key, value) ==
    LET s1 == IF key # stateKey
              THEN [a.state EXCEPT !.UncommitKeys = Append(@, key)]
              ELSE a.state
        s2 == [s1 EXCEPT !.db = DbSet(@, prefixKey(key), value)]
    IN  [a EXCEPT !.state = [s2 EXCEPT !.Size = @ + 1]]

\* a DeleteStateDB that also drops the key from the tracker
DeleteStateDBUntracks(a, key) ==
    LET s1 == [a.state EXCEPT !.db = DbRemove(@, prefixKey(key))]
        s2 == [s1 EXCEPT !.UncommitKeys = SelectSeq(@, LAMBDA k : k # key)]
    IN  [a EXCEPT !.state = [s2 EXCEPT !.Size = @ - 1]]

DeleteStateDB(a, key) ==
    LET s1 == [a.state EXCEPT !.db = DbRemove(@, prefixKey(key))]
    IN  [a EXCEPT !.state = [s1 EXCEPT !.Size = @ - 1]]

----------------------------------------------------------------------------
(* Results of a call: the application afterwards, the response, whether a  *)
(* panic is unwinding out of the call, and whether the method router ran.  *)

Return(a, res) == [app |-> a, res |-> res, panic |-> FALSE, routed |-> FALSE]

Panic(a) == [app |-> a, res |-> [code |-> "panic"], panic |-> TRUE, routed |-> FALSE]

Routed(r) == [r EXCEPT !.routed = TRUE]

ReturnDeliverTxLog(code, log, data) == [code |-> code, log |-> log, data |-> data]

ReturnCheckTx(ok) == [accepted |-> ok]

ReturnQuery(value, log, height) == [value |-> value, log |-> log, height |-> height]

\* a call whose deferred function does not recover
RecoverMissing(r, onPanic) == r

\* defer func() { if r := recover(); r != nil { res = onPanic } }()
Recover(r, onPanic) ==
    IF r.panic THEN [r EXCEPT !.res = onPanic, !.panic = FALSE] ELSE r

----------------------------------------------------------------------------
(* Transactions on the wire.  kind "val" is a validator transaction whose  *)
(* text follows the "val:" prefix; kind "b64" is the base64 text of str;   *)
(* kind "b64sp" is such a text whose '+' characters arrived as spaces;     *)
(* kind "junk" is bytes that are no base64 text.                           *)

isValidatorTx(tx) == tx.kind = "val"

\* base64.StdEncoding.DecodeString(string(tx))
DecodeString(tx) ==
    IF tx.kind = "b64" THEN [err |-> FALSE, str |-> tx.str]
                       ELSE [err |-> TRUE, str |-> <<>>]

\* strings.Replace(string(tx), " ", "+", -1)
ReplaceSpaces(tx) == IF tx.kind = "b64sp" THEN [tx EXCEPT !.kind = "b64"] ELSE tx

----------------------------------------------------------------------------
(* Validator tracking *)

PowerOf(tok) == IF tok = "0" THEN 0 ELSE 1

valKey(pubkey) == <<"val:", pubkey>>

updateValidator(a, v) ==
    LET key == valKey(v.PubKey) IN
    IF v.Power = 0 /\ ~DbHas(a.state.db, key)
    THEN Return(a, ReturnDeliverTxLog("Unauthorized", "cannot remove validator", <<>>))
    ELSE LET db == IF v.Power = 0
                   THEN DbRemove(a.state.db, key)
                   ELSE DbSet(a.state.db, key, <<v.PubKey, v.Tok>>)
         IN  Return([a EXCEPT !.state.db = db,
                              !.ValUpdates = Append(@, v)],
                    ReturnDeliverTxLog("OK", "success", <<>>))

execValidatorTx(a, tx) ==
    LET pubKeyAndPower == Split(tx.str, "/") IN
    IF Len(pubKeyAndPower) # 2
          \/ Len(pubKeyAndPower[1]) # 1 \/ Len(pubKeyAndPower[2]) # 1
    THEN Return(a, ReturnDeliverTxLog("EncodingError", "expected pubkey/power", <<>>))
    ELSE updateValidator(a, [PubKey |-> pubKeyAndPower[1][1],
                             Tok |-> pubKeyAndPower[2][1],
                             Power |-> PowerOf(pubKeyAndPower[2][1])])

----------------------------------------------------------------------------
(* The method router and the handlers plugged into it.  A handler reads    *)
(* its parameter as a list of store calls, makes them in order, and then   *)
(* returns OK (Exec), returns a domain failure (ExecFail) or hits an       *)
(* internal fault (ExecPanic).                                             *)

OpTable ==
    { [tok |-> "+A1", set |-> TRUE,  key |-> <<"A">>, value |-> <<"1">>],
      [tok |-> "+A2", set |-> TRUE,  key |-> <<"A">>, value |-> <<"2">>],
      [tok |-> "+B2", set |-> TRUE,  key |-> <<"B">>, value |-> <<"2">>],
      [tok |-> "+S1", set |-> TRUE,  key |-> stateKey, value |-> <<"1">>],
      [tok |-> "-A",  set |-> FALSE, key |-> <<"A">>, value |-> <<>>] }

OpToks == {o.tok : o \in OpTable}

OpOf(tok) == CHOOSE o \in OpTable : o.tok = tok

RECURSIVE RunOps(_, _)
RunOps(a, param) ==
    IF param = <<>> THEN a
    ELSE LET o == OpOf(Head(param))
         IN  RunOps(IF o.set THEN SetStateDB(a, o.key, o.value)
                             ELSE DeleteStateDB(a, o.key),
                    Tail(param))

----------------------------------------------------------------------------
(* The AS handlers.  A JSON text is a sequence of tokens between "{" and   *)
(* "}"; its fields are read by position.                                   *)

\* json.Unmarshal fails on a text that is not a JSON object
IsJSON(text) == Len(text) >= 2 /\ text[1] = "{" /\ text[Len(text)] = "}"

\* the index of the first occurrence of tok in s, 0 when there is none
IndexOf(s, tok) ==
    IF \E i \in 1..Len(s) : s[i] = tok
    THEN CHOOSE i \in 1..Len(s) : s[i] = tok /\ \A j \in 1..(i - 1) : s[j] # tok
    ELSE 0

\* SignDataParam{RequestID, ServiceID, Signature}
UnmarshalSignDataParam(param) ==
    IF IsJSON(param) /\ Len(param) = 5
    THEN [err |-> FALSE, RequestID |-> param[2], ServiceID |-> param[3], Signature |-> param[4]]
    ELSE [err |-> TRUE, RequestID |-> "", ServiceID |-> "", Signature |-> ""]

MarshalSignDataParam(p) == <<"{", p.RequestID, p.ServiceID, p.Signature, "}">>

\* one element of DataRequestList: "[" ServiceID "as" As... "ans" AnsweredAsIdList... "]"
UnmarshalDataRequest(item) ==
    LET k == IndexOf(item, "ans") IN
    [ServiceID |-> item[2],
     As |-> SubSeq(item, 4, k - 1),
     AnsweredAsIdList |-> SubSeq(item, k + 1, Len(item) - 1)]

MarshalDataRequest(d) ==
    <<"[", d.ServiceID, "as">> \o d.As \o <<"ans">> \o d.AnsweredAsIdList \o <<"]">>

RECURSIVE UnmarshalDataRequestList(_)
UnmarshalDataRequestList(toks) ==
    IF toks = <<>> THEN <<>>
    ELSE LET j == IndexOf(toks, "]") IN
         <<UnmarshalDataRequest(SubSeq(toks, 1, j))>>
            \o UnmarshalDataRequestList(SubSeq(toks, j + 1, Len(toks)))

RECURSIVE MarshalDataRequestList(_)
MarshalDataRequestList(list) ==
    IF list = <<>> THEN <<>>
    ELSE MarshalDataRequest(Head(list)) \o MarshalDataRequestList(Tail(list))

\* Request{IsClosed, IsTimedOut, DataRequestList}
UnmarshalRequest(text) ==
    IF IsJSON(text) /\ Len(text) >= 4
    THEN [err |-> FALSE, IsClosed |-> text[2] = "true", IsTimedOut |-> text[3] = "true",
          DataRequestList |-> UnmarshalDataRequestList(SubSeq(text, 4, Len(text) - 1))]
    ELSE [err |-> TRUE, IsClosed |-> FALSE, IsTimedOut |-> FALSE, DataRequestList |-> <<>>]

BoolText(b) == IF b THEN "true" ELSE "false"

MarshalRequest(r) ==
    <<"{", BoolText(r.IsClosed), BoolText(r.IsTimedOut)>>
       \o MarshalDataRequestList(r.DataRequestList) \o <<"}">>

\* the loop over DataRequestList that looks for nodeID among the AS of the service
ExistInASList(request, serviceID, nodeID) ==
    \E i \in 1..Len(request.DataRequestList) :
        LET dataRequest == request.DataRequestList[i] IN
        /\ dataRequest.ServiceID = serviceID
        /\ \/ Len(dataRequest.As) = 0
           \/ \E j \in 1..Len(dataRequest.As) : dataRequest.As[j] = nodeID

\* the loop that appends nodeID to the answered list of the service's data requests
UpdateAnswered(request, serviceID, nodeID) ==
    [request EXCEPT !.DataRequestList =
        [i \in 1..Len(@) |->
            IF @[i].ServiceID = serviceID
            THEN [@[i] EXCEPT !.AnsweredAsIdList = Append(@, nodeID)]
            ELSE @[i]]]

\* the string of the nodeID field of the envelope
NodeIDString(nodeID) == IF nodeID = <<>> THEN "" ELSE nodeID[1]

\* a signData that stores the signature before it looks at the AS list
signDataStoresFirst(param, a, nodeID) ==
    LET signData == UnmarshalSignDataParam(param)
        requestKey == <<"Request", "|", signData.RequestID>>
        request == UnmarshalRequest(a.state.db.kv[prefixKey(requestKey)])
        signDataKey == <<"SignData", "|", signData.Signature>>
        b == SetStateDB(a, signDataKey, MarshalSignDataParam(signData))
        updated == UpdateAnswered(request, signData.ServiceID, NodeIDString(nodeID))
    IN  IF signData.err
        THEN Return(a, ReturnDeliverTxLog("UnmarshalError", "invalid json", <<>>))
        ELSE IF ~DbHas(a.state.db, prefixKey(requestKey))
        THEN Return(a, ReturnDeliverTxLog("RequestIDNotFound", "Request ID not found", <<>>))
        ELSE IF request.err
        THEN Return(a, ReturnDeliverTxLog("UnmarshalError", "invalid json", <<>>))
        ELSE IF request.IsClosed
        THEN Return(b, ReturnDeliverTxLog("RequestIsClosed", "Request is closed", <<>>))
        ELSE IF request.IsTimedOut
        THEN Return(b, ReturnDeliverTxLog("RequestIsTimedOut", "Request is timed out", <<>>))
        ELSE IF ~ExistInASList(request, signData.ServiceID, NodeIDString(nodeID))
        THEN Return(b, ReturnDeliverTxLog("NodeIDIsNotExistInASList",
                                          "Node ID is not exist in AS list", <<>>))
        ELSE Return(SetStateDB(b, requestKey, MarshalRequest(updated)),
                    ReturnDeliverTxLog("OK", "success", <<signData.RequestID>>))

signData(param, a, nodeID) ==
    LET signData == UnmarshalSignDataParam(param)
        requestKey == <<"Request", "|", signData.RequestID>>
        request == UnmarshalRequest(a.state.db.kv[prefixKey(requestKey)])
        signDataKey == <<"SignData", "|", signData.Signature>>
        updated == UpdateAnswered(request, signData.ServiceID, NodeIDString(nodeID))
    IN  IF signData.err
        THEN Return(a, ReturnDeliverTxLog("UnmarshalError", "invalid json", <<>>))
        ELSE IF ~DbHas(a.state.db, prefixKey(requestKey))
        THEN Return(a, ReturnDeliverTxLog("RequestIDNotFound", "Request ID not found", <<>>))
        ELSE IF request.err
        THEN Return(a, ReturnDeliverTxLog("UnmarshalError", "invalid json", <<>>))
        ELSE IF request.IsClosed
        THEN Return(a, ReturnDeliverTxLog("RequestIsClosed", "Request is closed", <<>>))
        ELSE IF request.IsTimedOut
        THEN Return(a, ReturnDeliverTxLog("RequestIsTimedOut", "Request is timed out", <<>>))
        ELSE IF ~ExistInASList(request, signData.ServiceID, NodeIDString(nodeID))
        THEN Return(a, ReturnDeliverTxLog("NodeIDIsNotExistInASList",
                                          "Node ID is not exist in AS list", <<>>))
        ELSE Return(SetStateDB(SetStateDB(a, requestKey, MarshalRequest(updated)),
                               signDataKey, MarshalSignDataParam(signData)),
                    ReturnDeliverTxLog("OK", "success", <<signData.RequestID>>))

\* RegisterServiceDestinationParam{ServiceID, NodeID, MinIal, MinAal}
UnmarshalRegisterServiceDestinationParam(param) ==
    IF IsJSON(param) /\ Len(param) = 6
    THEN [err |-> FALSE, ServiceID |-> param[2], NodeID |-> param[3],
          MinIal |-> param[4], MinAal |-> param[5]]
    ELSE [err |-> TRUE, ServiceID |-> "", NodeID |-> "", MinIal |-> "", MinAal |-> ""]

\* the node name stored for a node id, the empty string when there is none
getNodeNameByNodeID(nodeID, a) ==
    LET key == prefixKey(<<"NodeID", "|", nodeID>>) IN
    IF DbHas(a.state.db, key) /\ IsJSON(a.state.db.kv[key]) /\ Len(a.state.db.kv[key]) >= 3
    THEN a.state.db.kv[key][2]
    ELSE ""

\* ASNode{NodeID, NodeName, MinIal, MinAal, ServiceID} as JSON
MarshalASNode(funcParam, a) ==
    <<"[", funcParam.NodeID, getNodeNameByNodeID(funcParam.NodeID, a),
      funcParam.MinIal, funcParam.MinAal, funcParam.ServiceID, "]">>

\* GetAsNodesByServiceIdResult{Node}: unmarshal, append newNode, marshal
AppendNode(text, newNode) == SubSeq(text, 1, Len(text) - 1) \o newNode \o <<"}">>

registerServiceDestination(param, a, nodeID) ==
    LET funcParam == UnmarshalRegisterServiceDestinationParam(param)
        serviceKey == <<"Service", "|", funcParam.ServiceID>>
        serviceDestinationKey == <<"ServiceDestination", "|", funcParam.ServiceID>>
        chkExists == DbHas(a.state.db, prefixKey(serviceDestinationKey))
        newNode == MarshalASNode(funcParam, a)
    IN  IF funcParam.err
        THEN Return(a, ReturnDeliverTxLog("UnmarshalError", "invalid json", <<>>))
        ELSE IF ~DbHas(a.state.db, prefixKey(serviceKey))
        THEN Return(a, ReturnDeliverTxLog("ServiceIDNotFound", "Service ID not found", <<>>))
        ELSE IF ~IsJSON(a.state.db.kv[prefixKey(serviceKey)])
        THEN Return(a, ReturnDeliverTxLog("UnmarshalError", "invalid json", <<>>))
        ELSE IF chkExists
        THEN IF ~IsJSON(a.state.db.kv[prefixKey(serviceDestinationKey)])
             THEN Return(a, ReturnDeliverTxLog("UnmarshalError", "invalid json", <<>>))
             ELSE Return(SetStateDB(a, serviceDestinationKey,
                                    AppendNode(a.state.db.kv[prefixKey(serviceDestinationKey)],
                                               newNode)),
                         ReturnDeliverTxLog("OK", "success", <<>>))
        ELSE Return(SetStateDB(a, serviceDestinationKey, AppendNode(<<"{", "}">>, newNode)),
                    ReturnDeliverTxLog("OK", "success", <<>>))

Methods == {<<"Exec">>, <<"ExecFail">>, <<"ExecPanic">>,
            <<"SignData">>, <<"RegisterServiceDestination">>}

callHandler(method, param, a, nodeID) ==
    IF method = <<"SignData">> THEN signData(param, a, nodeID)
    ELSE IF method = <<"RegisterServiceDestination">>
    THEN registerServiceDestination(param, a, nodeID)
    ELSE
    IF \E i \in 1..Len(param) : param[i] \notin OpToks
    THEN Return(a, ReturnDeliverTxLog("UnmarshalError", "bad parameter", <<>>))
    ELSE LET b == RunOps(a, param) IN
         CASE method = <<"Exec">>      -> Return(b, ReturnDeliverTxLog("OK", "success", <<>>))
           [] method = <<"ExecFail">>  -> Return(b, ReturnDeliverTxLog("DomainError", "rejected", <<>>))
           [] method = <<"ExecPanic">> -> Panic(b)

DeliverTxRouter(method, param, nonce, signature, nodeID, a) ==
    Routed(IF method \in Methods
           THEN callHandler(method, param, a, nodeID)
           ELSE Return(a, ReturnDeliverTxLog("MethodNotFound", "method not found", <<>>)))

\* the read-only router: "Get" returns the value stored under a key
QueryRouter(method, param, a, height) ==
    Routed(IF method = <<"Get">> /\ DbHas(a.state.db, prefixKey(param))
           THEN Return(a, ReturnQuery(a.state.db.kv[prefixKey(param)], "success", a.state.Height))
           ELSE Return(a, ReturnQuery(<<>>, "not found", a.state.Height)))

----------------------------------------------------------------------------
(* The lifecycle entry points.  Each takes the application and the request *)
(* and yields the application afterwards, the response and whether a panic *)
(* leaves the call.                                                        *)

Version == <<"0.0.1">>

\* an Info that reports the height of the block being built
InfoNextHeight(a) ==
    Return(a, [Version |-> Version,
               LastBlockHeight |-> a.state.Height + 1,
               LastBlockAppHash |-> a.state.AppHash])

Info(a) ==
    Return(a, [Version |-> Version,
               LastBlockHeight |-> a.state.Height,
               LastBlockAppHash |-> a.state.AppHash])

\* req.Validators is applied in order; an error updateValidator returns is logged
RECURSIVE InitChainLoop(_, _)
InitChainLoop(a, validators) ==
    IF validators = <<>> THEN a
    ELSE InitChainLoop(updateValidator(a, Head(validators)).app, Tail(validators))

InitChain(a, req) == Return(InitChainLoop(a, req.Validators), [code |-> "OK"])

\* a BeginBlock that takes the height from the block header
BeginBlockSetsHeight(a, req) ==
    Return([a EXCEPT !.ValUpdates = <<>>, !.state.Height = req.Height], [code |-> "OK"])

BeginBlock(a, req) == Return([a EXCEPT !.ValUpdates = <<>>], [code |-> "OK"])

\* an EndBlock that empties the list it returns
EndBlockFlushes(a, req) ==
    Return([a EXCEPT !.ValUpdates = <<>>], [ValidatorUpdates |-> a.ValUpdates])

EndBlock(a, req) == Return(a, [ValidatorUpdates |-> a.ValUpdates])

DeliverTxBody(a, tx) ==
    IF isValidatorTx(tx) THEN execValidatorTx(a, tx)
    ELSE LET dec == DecodeString(tx) IN
         IF dec.err
         THEN Return(a, ReturnDeliverTxLog("DecodingError", "illegal base64 data", <<>>))
         ELSE LET parts == Split(dec.str, "|") IN
              IF Len(parts) < 5
              THEN Panic(a)     \* parts[1] .. parts[4]: index out of range
              ELSE LET method == parts[1]
                       param == parts[2]
                       nonce == parts[3]
                       signature == parts[4]
                       nodeID == parts[5]
                   IN  IF method # <<>>
                       THEN DeliverTxRouter(method, param, nonce, signature, nodeID, a)
                       ELSE Return(a, ReturnDeliverTxLog("MethodCanNotBeEmpty",
                                                         "method can not be empty", <<>>))

\* a DeliverTx that restores the application when the transaction fails
DeliverTxRollsBack(a, tx) ==
    LET r == Recover(DeliverTxBody(a, tx),
                     ReturnDeliverTxLog("WrongTransactionFormat", "wrong transaction format", <<>>))
    IN  IF r.res.code # "OK" THEN [r EXCEPT !.app = a] ELSE r

DeliverTx(a, tx) ==
    Recover(DeliverTxBody(a, tx),
            ReturnDeliverTxLog("WrongTransactionFormat", "wrong transaction format", <<>>))

\* a CheckTx that executes validator transactions as DeliverTx does
CheckTxBodyExecutes(a, tx) ==
    IF isValidatorTx(tx)
    THEN [execValidatorTx(a, tx) EXCEPT !.res = ReturnCheckTx(TRUE)]
    ELSE LET dec == DecodeString(ReplaceSpaces(tx)) IN
         IF dec.err
         THEN Return(a, ReturnCheckTx(FALSE))
         ELSE LET parts == Split(dec.str, "|") IN
              IF Len(parts) < 5
              THEN Panic(a)
              ELSE Return(a, ReturnCheckTx(/\ parts[1] # <<>> /\ parts[2] # <<>>
                                           /\ parts[3] # <<>> /\ parts[4] # <<>>
                                           /\ parts[5] # <<>>))

CheckTxBody(a, tx) ==
    IF isValidatorTx(tx) THEN Return(a, ReturnCheckTx(TRUE))
    ELSE LET dec == DecodeString(ReplaceSpaces(tx)) IN
         IF dec.err
         THEN Return(a, ReturnCheckTx(FALSE))
         ELSE LET parts == Split(dec.str, "|") IN
              IF Len(parts) < 5
              THEN Panic(a)
              ELSE Return(a, ReturnCheckTx(/\ parts[1] # <<>> /\ parts[2] # <<>>
                                           /\ parts[3] # <<>> /\ parts[4] # <<>>
                                           /\ parts[5] # <<>>))

CheckTx(a, tx) == Recover(CheckTxBody(a, tx), ReturnCheckTx(FALSE))

\* a loop that hashes each key once, at its last occurrence
RECURSIVE AccumulateOnce(_, _, _)
AccumulateOnce(db, keys, newAppHashString) ==
    IF keys = <<>> THEN newAppHashString
    ELSE LET key == Head(keys) IN
         AccumulateOnce(db, Tail(keys),
                        IF DbHas(db, prefixKey(key))
                              /\ \A i \in 2..Len(keys) : keys[i] # key
                        THEN newAppHashString \o key \o db.kv[prefixKey(key)]
                        ELSE newAppHashString)

\* the loop of Commit over UncommitKeys
RECURSIVE Accumulate(_, _, _)
Accumulate(db, keys, newAppHashString) ==
    IF keys = <<>> THEN newAppHashString
    ELSE LET key == Head(keys) IN
         Accumulate(db, Tail(keys),
                    IF DbHas(db, prefixKey(key))
                    THEN newAppHashString \o key \o db.kv[prefixKey(key)]
                    ELSE newAppHashString)

\* the string the digest is taken of
NewAppHashStrWithStats(st, newAppHashString) ==
    st.CommitStr \o newAppHashString \o <<st.db.stats>>

NewAppHashStr(st, newAppHashString) == st.CommitStr \o newAppHashString

\* a digest taken even when nothing was accumulated
NextCommitStrAlways(st, newAppHashString) ==
    Sha256Hex(NewAppHashStr(st, newAppHashString))

\* after the loop: the new CommitStr
NextCommitStr(st, newAppHashString) ==
    IF newAppHashString # <<>>
    THEN Sha256Hex(NewAppHashStr(st, newAppHashString))
    ELSE st.CommitStr

\* a Commit that counts only the blocks that changed the digest
CommitSkipsEmptyBlock(a, req) ==
    LET st == a.state
        s1 == [st EXCEPT !.CommitStr =
                   NextCommitStr(st, Accumulate(st.db, st.UncommitKeys, <<>>))]
        s2 == [s1 EXCEPT !.AppHash = s1.CommitStr]
        s3 == [s2 EXCEPT !.Height = IF s1.CommitStr # st.CommitStr THEN @ + 1 ELSE @]
    IN  IF req.fault
        THEN Panic([a EXCEPT !.state = s3])
        ELSE LET s4 == saveState(s3)
                 s5 == [s4 EXCEPT !.UncommitKeys = <<>>]
             IN  Return([a EXCEPT !.state = s5], [Data |-> s5.AppHash])

\* a Commit that does not reset the tracker
CommitKeepsKeys(a, req) ==
    LET st == a.state
        s1 == [st EXCEPT !.CommitStr =
                   NextCommitStr(st, Accumulate(st.db, st.UncommitKeys, <<>>))]
        s2 == [s1 EXCEPT !.AppHash = s1.CommitStr]
        s3 == [s2 EXCEPT !.Height = @ + 1]
    IN  IF req.fault
        THEN Panic([a EXCEPT !.state = s3])
        ELSE LET s4 == saveState(s3)
             IN  Return([a EXCEPT !.state = s4], [Data |-> s4.AppHash])

\* req.fault: json.Marshal fails in saveState, which panics
Commit(a, req) ==
    LET st == a.state
        s1 == [st EXCEPT !.CommitStr =
                   NextCommitStr(st, Accumulate(st.db, st.UncommitKeys, <<>>))]
        s2 == [s1 EXCEPT !.AppHash = s1.CommitStr]
        s3 == [s2 EXCEPT !.Height = @ + 1]
    IN  IF req.fault
        THEN Panic([a EXCEPT !.state = s3])
        ELSE LET s4 == saveState(s3)
                 s5 == [s4 EXCEPT !.UncommitKeys = <<>>]
             IN  Return([a EXCEPT !.state = s5], [Data |-> s5.AppHash])

QueryBody(a, req) ==
    LET dec == DecodeString(req.Data) IN
    IF dec.err
    THEN Return(a, ReturnQuery(<<>>, "illegal base64 data", a.state.Height))
    ELSE LET parts == Split(dec.str, "|") IN
         IF Len(parts) < 2
         THEN Panic(a)
         ELSE LET method == parts[1]
                  param == parts[2]
              IN  IF method # <<>>
                  THEN QueryRouter(method, param, a, req.Height)
                  ELSE Return(a, ReturnQuery(<<>>, "method can't empty", a.state.Height))

Query(a, req) ==
    Recover(QueryBody(a, req), ReturnQuery(<<>>, "wrong query format", a.state.Height))

----------------------------------------------------------------------------
(* The requests the consensus engine may send *)

B64(str) == [kind |-> "b64", str |-> str]

Envelope(method, param, nonce) ==
    method \o <<"|">> \o param \o <<"|">> \o nonce \o <<"|", "sig", "|", "node1">>

Scripts ==
    {<<>>} \cup {<<o>> : o \in OpToks} \cup {<<"+A1", "+B2">>, <<"+A1", "-A">>}

Malformed ==
    { B64(Envelope(<<"Exec">>, <<"+A1">>, <<>>)),          \* empty nonce
      B64(<<"onlyonefield">>),                             \* one field
      B64(<<"Exec", "|", "+A1", "|", "n", "|", "sig">>),   \* four fields
      B64(Envelope(<<"Exec">>, <<"+A1">>, <<"n">>) \o <<"|", "extra">>),  \* six fields
      [kind |-> "b64sp", str |-> Envelope(<<"Exec">>, <<"+A1">>, <<"n">>)],
      [kind |-> "junk", str |-> <<>>] }

Txs ==
    {B64(Envelope(<<"Exec">>, p, <<"n">>)) : p \in Scripts}
    \cup {B64(Envelope(m, p, <<"n">>)) : m \in {<<"ExecFail">>, <<"ExecPanic">>},
                                         p \in {<<>>, <<"+A1">>}}
    \cup Malformed
    \cup { B64(Envelope(<<"Exec">>, <<"junk">>, <<"n">>)),      \* parameter does not parse
           B64(Envelope(<<"Nope">>, <<"+A1">>, <<"n">>)),       \* unknown method
           B64(Envelope(<<>>, <<"+A1">>, <<"n">>)),             \* empty method
           [kind |-> "val", str |-> <<"k1", "/", "1">>],
           [kind |-> "val", str |-> <<"k1", "/", "0">>],
           [kind |-> "val", str |-> <<"k1">>] }

CheckTxs ==
    Malformed \cup { B64(Envelope(<<"Exec">>, <<"+A1">>, <<"n">>)),
                     [kind |-> "val", str |-> <<"k1", "/", "1">>] }

Validators == {[PubKey |-> "k1", Tok |-> "1", Power |-> 1]}

InitChainReqs ==
    {[Validators |-> vs] :
        vs \in {<<>>} \cup {<<v>> : v \in Validators}
                     \cup {<<[PubKey |-> "k1", Tok |-> "0", Power |-> 0]>>}}

Queries ==
    {[Data |-> d, Height |-> 0] :
        d \in { B64(<<"Get", "|", "A">>), B64(<<"|", "A">>), B64(<<"Get">>),
                [kind |-> "junk", str |-> <<>>] }}

----------------------------------------------------------------------------
(* The state machine *)

\* the goroutines of two DeliverTx calls issued at once
Goroutines == {"g1", "g2"}

\* no store call is under way
Idle == [g \in Goroutines |-> [tok |-> "", pc |-> "done", keys |-> <<>>, size |-> 0]]

Init ==
    /\ app = NewDIDApplication("db1")
    /\ replica = NewDIDApplication("db2")
    /\ alive = TRUE
    /\ last = [call |-> "NewDIDApplication", req |-> <<>>, res |-> <<>>, routed |-> FALSE]
    /\ commits = 0
    /\ calls = 0
    /\ race = Idle

\* one call: r is its result on app, r2 its result on replica
Step(call, req, r, lockstep, r2) ==
    /\ alive
    /\ calls < MaxCalls
    /\ calls' = calls + 1
    /\ app' = r.app
    /\ alive' = ~r.panic
    /\ last' = [call |-> call, req |-> req, res |-> r.res, routed |-> r.routed]
    /\ commits' = IF call = "Commit" THEN commits + 1 ELSE commits
    /\ replica' = IF lockstep THEN r2.app ELSE replica
    /\ UNCHANGED race

InfoCall(lockstep) ==
    Step("Info", <<>>, Info(app), lockstep, Info(replica))

InitChainCall(lockstep) ==
    \E req \in InitChainReqs :
        Step("InitChain", req, InitChain(app, req), lockstep, InitChain(replica, req))

BeginBlockCall(lockstep) ==
    \E req \in {[Height |-> app.state.Height + 1]} :
        Step("BeginBlock", req, BeginBlock(app, req), lockstep, BeginBlock(replica, req))

DeliverTxCall(lockstep) ==
    \E tx \in Txs :
        Step("DeliverTx", tx, DeliverTx(app, tx), lockstep, DeliverTx(replica, tx))

CheckTxCall(lockstep) ==
    \E tx \in CheckTxs :
        Step("CheckTx", tx, CheckTx(app, tx), lockstep, CheckTx(replica, tx))

EndBlockCall(lockstep) ==
    \E req \in {[Height |-> app.state.Height + 1]} :
        Step("EndBlock", req, EndBlock(app, req), lockstep, EndBlock(replica, req))

CommitCall(lockstep) ==
    \E req \in {[fault |-> f] : f \in BOOLEAN} :
        Step("Commit", req, Commit(app, req), lockstep, Commit(replica, req))

QueryCall(lockstep) ==
    \E req \in Queries :
        Step("Query", req, Query(app, req), lockstep, Query(replica, req))

InfoStep == InfoCall(FALSE)
InitChainStep == InitChainCall(FALSE)
BeginBlockStep == BeginBlockCall(FALSE)
DeliverTxStep == DeliverTxCall(FALSE)
CheckTxStep == CheckTxCall(FALSE)
EndBlockStep == EndBlockCall(FALSE)
CommitStep == CommitCall(FALSE)
QueryStep == QueryCall(FALSE)

Next ==
    \/ InfoStep
    \/ InitChainStep
    \/ BeginBlockStep
    \/ DeliverTxStep
    \/ CheckTxStep
    \/ EndBlockStep
    \/ CommitStep
    \/ QueryStep

Spec == Init /\ [][Next]_vars

\* two replicas fed the identical call sequence
InfoBoth == InfoCall(TRUE)
InitChainBoth == InitChainCall(TRUE)
BeginBlockBoth == BeginBlockCall(TRUE)
DeliverTxBoth == DeliverTxCall(TRUE)
CheckTxBoth == CheckTxCall(TRUE)
EndBlockBoth == EndBlockCall(TRUE)
CommitBoth == CommitCall(TRUE)
QueryBoth == QueryCall(TRUE)

NextReplicas ==
    \/ InfoBoth
    \/ InitChainBoth
    \/ BeginBlockBoth
    \/ DeliverTxBoth
    \/ CheckTxBoth
    \/ EndBlockBoth
    \/ CommitBoth
    \/ QueryBoth

SpecReplicas == Init /\ [][NextReplicas]_vars

----------------------------------------------------------------------------
(* Vocabulary of the properties *)

\* the process is stopped right after a Commit returned and started again on
\* its tree, while the replica keeps running
RestartStep ==
    /\ last.call = "Commit"
    /\ Step("Restart", <<>>, Return(Restart(app), <<>>), FALSE, Return(replica, <<>>))

NextRestart ==
    \/ InfoBoth
    \/ InitChainBoth
    \/ BeginBlockBoth
    \/ DeliverTxBoth
    \/ CheckTxBoth
    \/ EndBlockBoth
    \/ CommitBoth
    \/ QueryBoth
    \/ RestartStep

SpecRestart == Init /\ [][NextRestart]_vars

\* the entries earlier blocks left for request r1 and service s1
RequestTexts ==
    { <<"{", "false", "false", "[", "s1", "as", "ans", "]", "}">>,
      <<"{", "false", "false", "[", "s2", "as", "ans", "]",
                               "[", "s1", "as", "node2", "node1", "ans", "node2", "]", "}">>,
      <<"{", "false", "false", "[", "s1", "as", "node2", "ans", "]", "}">>,
      <<"{", "true", "false", "[", "s1", "as", "ans", "]", "}">>,
      <<"{", "false", "true", "[", "s1", "as", "ans", "]", "}">>,
      <<"not json">> }

ServiceTexts == { <<"{", "s1", "service one", "}">>, <<"not json">> }

ServiceDestinationTexts ==
    { <<"{", "[", "node2", "", "1", "1", "s1", "]", "}">>, <<"not json">> }

EntriesFor(key, texts) == {<<>>} \cup {<< [key |-> key, value |-> t] >> : t \in texts}

RECURSIVE SetAll(_, _)
SetAll(a, entries) ==
    IF entries = <<>> THEN a
    ELSE SetAll(SetStateDB(a, Head(entries).key, Head(entries).value), Tail(entries))

\* the application after a block that wrote the entries and was committed
Populated(entries) ==
    Commit(SetAll(NewDIDApplication("db1"), entries), [fault |-> FALSE]).app

HandlerTxs ==
    {B64(Envelope(<<"SignData">>, p, <<"n">>)) :
        p \in { <<"{", "r1", "s1", "sig1", "}">>,
                <<"{", "r1", "s3", "sig1", "}">>,
                <<"not json">> }}
    \cup {B64(Envelope(<<"RegisterServiceDestination">>, p, <<"n">>)) :
        p \in { <<"{", "s1", "node1", "1", "1", "}">>, <<"not json">> }}

InitHandlers ==
    /\ app \in {Populated(r \o s \o d) :
                   r \in EntriesFor(<<"Request", "|", "r1">>, RequestTexts),
                   s \in EntriesFor(<<"Service", "|", "s1">>, ServiceTexts),
                   d \in EntriesFor(<<"ServiceDestination", "|", "s1">>,
                                    ServiceDestinationTexts)}
    /\ replica = NewDIDApplication("db2")
    /\ alive = TRUE
    /\ last = [call |-> "NewDIDApplication", req |-> <<>>, res |-> <<>>, routed |-> FALSE]
    /\ commits = 0
    /\ calls = 0
    /\ race = Idle

HandlerTxStep ==
    \E tx \in HandlerTxs :
        Step("DeliverTx", tx, DeliverTx(app, tx), FALSE, Return(replica, <<>>))

NextHandlers ==
    \/ HandlerTxStep
    \/ CommitStep

SpecHandlers == InitHandlers /\ [][NextHandlers]_vars

\* The store calls of two handlers, interleaved statement by statement.  A
\* statement that reads and writes a field (append, ++, --) is a read of the
\* field into a register followed by a write from the register.

\* where a store call starts: SetStateDB of a tracked key at the append,
\* SetStateDB("stateKey") and DeleteStateDB at the tree
FirstPc(o) == IF o.set /\ o.key # stateKey THEN "load keys" ELSE "tree"

\* the applications two store calls may start from
RaceStarts ==
    { NewDIDApplication("db1"),
      SetStateDB(NewDIDApplication("db1"), <<"A">>, <<"1">>),
      Populated(<< [key |-> <<"A">>, value |-> <<"1">>] >>) }

InitRace ==
    /\ app \in RaceStarts
    /\ replica = app
    /\ alive = TRUE
    /\ last = [call |-> "DeliverTx", req |-> <<>>, res |-> <<>>, routed |-> TRUE]
    /\ commits = 0
    /\ calls = 0
    /\ race \in {[g \in Goroutines |->
                    [tok |-> o[g].tok, pc |-> FirstPc(o[g]), keys |-> <<>>, size |-> 0]] :
                 o \in [Goroutines -> OpTable]}

\* goroutine g moves from pc to next; app and the registers change as given
RaceStep(g, pc, next, a, keys, size) ==
    /\ race[g].pc = pc
    /\ race' = [race EXCEPT ![g] = [tok |-> race[g].tok, pc |-> next,
                                    keys |-> keys, size |-> size]]
    /\ app' = a
    /\ UNCHANGED <<replica, alive, last, commits, calls>>

\* app.state.UncommitKeys = append(app.state.UncommitKeys, string(key)): the read
LoadUncommitKeys ==
    \E g \in Goroutines :
        RaceStep(g, "load keys", "store keys", app, app.state.UncommitKeys, 0)

\* ... and the write
StoreUncommitKeys ==
    \E g \in Goroutines :
        RaceStep(g, "store keys", "tree",
                 [app EXCEPT !.state.UncommitKeys = Append(race[g].keys, OpOf(race[g].tok).key)],
                 <<>>, 0)

\* app.state.db.Set(prefixKey(key), value) or app.state.db.Remove(prefixKey(key))
TreeWrite ==
    \E g \in Goroutines :
        LET o == OpOf(race[g].tok) IN
        RaceStep(g, "tree", "load size",
                 [app EXCEPT !.state.db = IF o.set THEN DbSet(@, prefixKey(o.key), o.value)
                                                   ELSE DbRemove(@, prefixKey(o.key))],
                 <<>>, 0)

\* app.state.Size++ or app.state.Size--: the read
LoadSize ==
    \E g \in Goroutines :
        RaceStep(g, "load size", "store size", app, <<>>, app.state.Size)

\* ... and the write
StoreSize ==
    \E g \in Goroutines :
        RaceStep(g, "store size", "done",
                 [app EXCEPT !.state.Size =
                      race[g].size + (IF OpOf(race[g].tok).set THEN 1 ELSE -1)],
                 <<>>, 0)

NextRace ==
    \/ LoadUncommitKeys
    \/ StoreUncommitKeys
    \/ TreeWrite
    \/ LoadSize
    \/ StoreSize

SpecRace == InitRace /\ [][NextRace]_vars

\* this step is a call of the named entry point
Called(call) == calls' = calls + 1 /\ last'.call = call

\* this step is a Commit that returned
Committed == Called("Commit") /\ alive'

\* the envelope fields of a transaction whose bytes decode
Fields(tx) == Split(tx.str, "|")

\* what key i of the tracker adds to the accumulator
Contribution(st, i) ==
    LET key == st.UncommitKeys[i] IN
    IF prefixKey(key) \in DOMAIN st.db.kv THEN key \o st.db.kv[prefixKey(key)] ELSE <<>>

RECURSIVE Concat(_, _)
Concat(f, n) == IF n = 0 THEN <<>> ELSE Concat(f, n - 1) \o f[n]

\* the accumulator as section 4.4 describes it
Accumulator(st) ==
    Concat([i \in 1..Len(st.UncommitKeys) |-> Contribution(st, i)], Len(st.UncommitKeys))

----------------------------------------------------------------------------
(* C1: two instances that start from the same State and are fed the same   *)
(* sequence of lifecycle calls hold the same AppHash and CommitStr at      *)
(* every point, and the Data a Commit returns to one is the AppHash of the *)
(* other.                                                                  *)
C1_Determinism ==
    /\ app.state.AppHash = replica.state.AppHash
    /\ app.state.CommitStr = replica.state.CommitStr
    /\ app.state.Height = replica.state.Height
    /\ (last.call = "Commit" /\ alive) => last.res.Data = replica.state.AppHash

\* both replicas have committed two blocks that each changed the digest
C1_Witness ==
    /\ last.call = "Commit" /\ alive /\ commits = 2
    /\ Len(replica.state.AppHash) > 2
    /\ replica.state.AppHash[1] = "sha256(" /\ replica.state.AppHash[2] = "sha256("
    /\ app.state.db.stats # replica.state.db.stats

(* C2 as claimed: a Commit leaves AppHash unchanged if and only if         *)
(* UncommitKeys was empty when it was called.                              *)
C2_HashUnchangedIffTrackerEmpty ==
    [][Committed =>
         ((app'.state.AppHash = app.state.AppHash) <=> (app.state.UncommitKeys = <<>>))]_vars

(* C2 amended: a Commit leaves AppHash unchanged if and only if the        *)
(* accumulator is empty at that moment; an empty tracker is one such case, *)
(* a tracker none of whose keys has a value in the store is another.       *)
C2_HashUnchangedIffAccumulatorEmpty ==
    [][Committed =>
         /\ (app'.state.AppHash = app.state.AppHash) <=> (Accumulator(app.state) = <<>>)
         /\ app.state.UncommitKeys = <<>> => app'.state.AppHash = app.state.AppHash
         /\ (\A i \in 1..Len(app.state.UncommitKeys) :
                 ~DbHas(app.state.db, prefixKey(app.state.UncommitKeys[i])))
            => app'.state.AppHash = app.state.AppHash]_vars

\* a Commit with a non-empty tracker that left the digest as it was
C2_Witness ==
    /\ last.call = "Commit" /\ alive
    /\ app.state.db.kv[stateKey].uncommit_keys # <<>>
    /\ app.state.AppHash = <<>>

(* C3: at Commit the accumulator is the concatenation, over UncommitKeys   *)
(* in insertion order with duplicates kept, of key and current value for   *)
(* the keys that have one; a non-empty accumulator makes CommitStr         *)
(* hex(sha256(previous CommitStr + accumulator)), an empty one leaves it.  *)
(* set("A","1") then set("B","2") gives hex(sha256(CommitStr + "A1B2")).   *)
C3_CommitStrChain ==
    [][Called("Commit") =>
         /\ app'.state.CommitStr =
               IF Accumulator(app.state) # <<>>
               THEN Sha256Hex(app.state.CommitStr \o Accumulator(app.state))
               ELSE app.state.CommitStr
         /\ (/\ app.state.UncommitKeys = << <<"A">>, <<"B">> >>
             /\ DbHas(app.state.db, prefixKey(<<"A">>))
             /\ app.state.db.kv[prefixKey(<<"A">>)] = <<"1">>
             /\ DbHas(app.state.db, prefixKey(<<"B">>))
             /\ app.state.db.kv[prefixKey(<<"B">>)] = <<"2">>)
            => app'.state.CommitStr =
                  Sha256Hex(app.state.CommitStr \o <<"A", "1", "B", "2">>)]_vars

\* set A twice, the second time to another value, then Commit: A is hashed
\* twice with its current value
C3_Witness ==
    /\ last.call = "Commit" /\ alive
    /\ app.state.CommitStr = Sha256Hex(<<"A", "2", "A", "2">>)

(* C4: every Commit increases Height by exactly 1, whether or not a key    *)
(* was mutated; no other call changes Height; Height is the initial height *)
(* (0) plus the number of Commit calls.                                    *)
C4_HeightCountsCommits ==
    /\ [](app.state.Height = commits)
    /\ [][/\ Called("Commit") => app'.state.Height = app.state.Height + 1
          /\ app'.state.Height >= app.state.Height]_vars

\* two Commits of blocks that mutated nothing
C4_Witness ==
    /\ last.call = "Commit" /\ alive /\ commits = 2
    /\ app.state.Height = 2 /\ app.state.AppHash = <<>>

\* s is the first part of t
IsPrefix(s, t) == Len(s) <= Len(t) /\ SubSeq(t, 1, Len(s)) = s

\* the keys a handler parameter sets, in order, as the tracker records them
RECURSIVE SetKeys(_)
SetKeys(param) ==
    IF param = <<>> THEN <<>>
    ELSE LET o == OpOf(Head(param)) IN
         (IF o.set /\ o.key # stateKey THEN <<o.key>> ELSE <<>>) \o SetKeys(Tail(param))

(* C5: after every Commit that returns UncommitKeys is empty; between      *)
(* Commits the tracker only grows, and only by the keys the SetStateDB     *)
(* calls of the running DeliverTx append, so it is empty until the first   *)
(* SetStateDB of the next block and a Commit never hashes a key recorded   *)
(* before the previous Commit.                                             *)
C5_TrackerReset ==
    /\ []((last.call = "Commit" /\ alive) => app.state.UncommitKeys = <<>>)
    /\ [][~Called("Commit") =>
            /\ IsPrefix(app.state.UncommitKeys, app'.state.UncommitKeys)
            /\ app'.state.UncommitKeys # app.state.UncommitKeys =>
                  /\ Called("DeliverTx") /\ last'.routed
                  /\ app'.state.UncommitKeys =
                        app.state.UncommitKeys \o SetKeys(Fields(last'.req)[2])]_vars

\* a block that set keys, its Commit, then an empty block whose Commit
\* returned the same digest
C5_Witness ==
    /\ last.call = "Commit" /\ alive /\ commits = 2
    /\ app.state.UncommitKeys = <<>>
    /\ app.state.db.kv[stateKey].uncommit_keys = <<>>
    /\ Len(app.state.AppHash) > 2
    /\ app.state.AppHash[1] = "sha256(" /\ app.state.AppHash[2] # "sha256("

(* C6: CheckTx changes nothing of the engine, for every input: Size,       *)
(* Height, AppHash, CommitStr, UncommitKeys, the store and ValUpdates are  *)
(* after the call what they were before, also when it panics and recovers. *)
C6_CheckTxFrame ==
    [][Called("CheckTx") => (app' = app /\ alive')]_vars

\* a CheckTx that panicked on a one-field envelope in the middle of a block
C6_Witness ==
    /\ last.call = "CheckTx" /\ alive
    /\ last.req = B64(<<"onlyonefield">>)
    /\ last.res.accepted = FALSE
    /\ app.state.UncommitKeys # <<>>

(* C7 as claimed: a DeliverTx whose decoded string does not split into     *)
(* exactly five fields returns the transport-format failure, does not      *)
(* reach the router and changes nothing.                                   *)
C7_WrongFieldCountRejected ==
    [][(/\ Called("DeliverTx")
        /\ last'.req.kind = "b64"
        /\ Len(Fields(last'.req)) # 5)
       => (/\ last'.res.code = "WrongTransactionFormat"
           /\ ~last'.routed
           /\ app' = app)]_vars

(* C8: a DeliverTx whose handler panics returns WrongTransactionFormat,    *)
(* the process stays up, and the application is left exactly as by the     *)
(* same handler returning a failure after the same store calls, so every   *)
(* later call is processed as after a normal failure.                      *)
C8_HandlerPanicRecovered ==
    [][(/\ Called("DeliverTx")
        /\ last'.req.kind = "b64"
        /\ Len(Fields(last'.req)) >= 5
        /\ Fields(last'.req)[1] = <<"ExecPanic">>)
       => (/\ alive'
           /\ last'.res.code = "WrongTransactionFormat"
           /\ app' = RunOps(app, Fields(last'.req)[2])
           /\ app' = DeliverTx(app, B64(Envelope(<<"ExecFail">>, Fields(last'.req)[2],
                                                 <<"n">>))).app)]_vars

\* a handler that set A and then panicked; the call returned
C8_Witness ==
    /\ last.call = "DeliverTx" /\ alive /\ last.routed
    /\ last.req = B64(Envelope(<<"ExecPanic">>, <<"+A1">>, <<"n">>))
    /\ last.res.code = "WrongTransactionFormat"
    /\ app.state.UncommitKeys = << <<"A">> >>

(* C9 as claimed: no lifecycle call terminates the process; a failure      *)
(* inside any of the seven entry points is caught at its boundary.         *)
C9_NoCallTerminatesProcess ==
    last.call \in {"InitChain", "BeginBlock", "DeliverTx", "CheckTx",
                   "EndBlock", "Commit", "Query"} => alive

(* C10: Height, AppHash and CommitStr change in Commit only.               *)
C10_OnlyCommitWrites ==
    [][~Called("Commit") =>
          /\ app'.state.Height = app.state.Height
          /\ app'.state.AppHash = app.state.AppHash
          /\ app'.state.CommitStr = app.state.CommitStr]_vars

\* a successful DeliverTx in the block after a Commit that changed the digest
C10_Witness ==
    /\ last.call = "DeliverTx" /\ alive /\ last.res.code = "OK"
    /\ commits = 1 /\ app.state.Height = 1
    /\ app.state.AppHash # <<>>
    /\ app.state.UncommitKeys # <<>>


----------------------------------------------------------------------------
\* the operations of the handler vocabulary that call SetStateDB
SetOps == {o \in OpTable : o.set}

\* this step is a DeliverTx that ran Exec on a one-operation parameter
RanOne(o) ==
    /\ Called("DeliverTx") /\ last'.routed
    /\ last'.req = B64(Envelope(<<"Exec">>, <<o.tok>>, <<"n">>))

(* C11 as claimed: for every key and value, SetStateDB(key, value) writes  *)
(* value under the prefixed key, appends key to the end of UncommitKeys    *)
(* for every key without exception, also when the key is already in the    *)
(* list, and increments Size by exactly 1 even when the key existed.       *)
C11_SetAppendsEveryKey ==
    [][\A o \in SetOps : RanOne(o) =>
          /\ app'.state.db.kv[prefixKey(o.key)] = o.value
          /\ app'.state.UncommitKeys = Append(app.state.UncommitKeys, o.key)
          /\ app'.state.Size = app.state.Size + 1]_vars

(* C11: for every key and value, SetStateDB(key, value) writes value under *)
(* the prefixed key and increments Size by exactly 1, also when the key    *)
(* already existed; it appends key to the end of UncommitKeys, also when   *)
(* the key is already in the list, for every key except the key whose      *)
(* string is "stateKey", for which UncommitKeys is left as it was. Nothing *)
(* else of the application changes.                                        *)
C11_SetAppendsEveryKeyButStateKey ==
    /\ [](\A o \in SetOps :
            LET b == SetStateDB(app, o.key, o.value) IN
            /\ b.state.db.kv[prefixKey(o.key)] = o.value
            /\ \A k \in (DOMAIN app.state.db.kv) \ {prefixKey(o.key)} :
                  k \in DOMAIN b.state.db.kv /\ b.state.db.kv[k] = app.state.db.kv[k]
            /\ b.state.UncommitKeys = IF o.key = stateKey THEN app.state.UncommitKeys
                                      ELSE Append(app.state.UncommitKeys, o.key)
            /\ b.state.Size = app.state.Size + 1
            /\ b = [app EXCEPT !.state.db = b.state.db,
                               !.state.UncommitKeys = b.state.UncommitKeys,
                               !.state.Size = b.state.Size])
    /\ [][\A o \in SetOps : RanOne(o) => app' = SetStateDB(app, o.key, o.value)]_vars

\* A was set twice in one block: tracked twice, counted twice, stored once
C11_Witness ==
    /\ last.call = "DeliverTx" /\ last.routed /\ last.res.code = "OK"
    /\ last.req = B64(Envelope(<<"Exec">>, <<"+A2">>, <<"n">>))
    /\ app.state.UncommitKeys = << <<"A">>, <<"A">> >>
    /\ app.state.Size = 2
    /\ app.state.db.kv[prefixKey(<<"A">>)] = <<"2">>


----------------------------------------------------------------------------
\* the operations of the handler vocabulary that call DeleteStateDB
DeleteOps == {o \in OpTable : ~o.set}

\* the tracker without the keys whose value is absent from the store
LiveKeys(st) == SelectSeq(st.UncommitKeys, LAMBDA k : DbHas(st.db, prefixKey(k)))

(* C12: DeleteStateDB(key) removes the prefixed entry, decrements Size by  *)
(* exactly 1 and leaves UncommitKeys, every other entry and the rest of    *)
(* the application unchanged; a key that was set and then deleted in the   *)
(* same block stays in UncommitKeys, and the Commit accumulates exactly    *)
(* what it would accumulate over the tracked keys whose value is present.  *)
C12_DeleteFrame ==
    /\ [](\A o \in DeleteOps :
            LET b == DeleteStateDB(app, o.key) IN
            /\ ~DbHas(b.state.db, prefixKey(o.key))
            /\ \A k \in (DOMAIN app.state.db.kv) \ {prefixKey(o.key)} :
                  DbHas(b.state.db, k) /\ b.state.db.kv[k] = app.state.db.kv[k]
            /\ b.state.Size = app.state.Size - 1
            /\ b.state.UncommitKeys = app.state.UncommitKeys
            /\ b = [app EXCEPT !.state.db = b.state.db, !.state.Size = b.state.Size])
    /\ [][\A o \in DeleteOps : RanOne(o) => app' = DeleteStateDB(app, o.key)]_vars
    /\ [][(/\ Called("DeliverTx") /\ last'.routed
           /\ last'.req = B64(Envelope(<<"Exec">>, <<"+A1", "-A">>, <<"n">>)))
          => (/\ app'.state.UncommitKeys = Append(app.state.UncommitKeys, <<"A">>)
              /\ ~DbHas(app'.state.db, prefixKey(<<"A">>))
              /\ app'.state.Size = app.state.Size)]_vars
    /\ [][Committed =>
            app'.state.CommitStr =
               NextCommitStr(app.state,
                             Accumulator([app.state EXCEPT !.UncommitKeys = LiveKeys(app.state)]))]_vars

\* A was set, B was set, A was deleted, and the Commit hashed B alone
C12_Witness ==
    /\ last.call = "Commit" /\ alive /\ commits = 1 /\ calls = 3
    /\ app.state.db.kv[stateKey].uncommit_keys = << <<"A">>, <<"B">> >>
    /\ ~DbHas(app.state.db, prefixKey(<<"A">>))
    /\ app.state.Size = 1
    /\ app.state.CommitStr = Sha256Hex(<<"B", "2">>)


----------------------------------------------------------------------------
\* the last two elements of a sequence
Last2(s) == SubSeq(s, Len(s) - 1, Len(s))

(* C13: DeliverTx does not roll back. When a handler calls SetStateDB and  *)
(* then fails or panics, DeliverTx returns a failure response and the      *)
(* written value, the appended UncommitKeys entry and the Size increment   *)
(* all remain; the Commit that follows accumulates that key and value.     *)
C13_NoRollback ==
    /\ [][(/\ Called("DeliverTx")
           /\ last'.req.kind = "b64"
           /\ Len(Fields(last'.req)) >= 5
           /\ Fields(last'.req)[1] \in {<<"ExecFail">>, <<"ExecPanic">>}
           /\ \A i \in 1..Len(Fields(last'.req)[2]) : Fields(last'.req)[2][i] \in OpToks)
          => (/\ alive'
              /\ last'.res.code \notin {"OK", "panic"}
              /\ app' = RunOps(app, Fields(last'.req)[2])
              /\ Fields(last'.req)[2] = <<"+A1">> =>
                    /\ app'.state.db.kv[prefixKey(<<"A">>)] = <<"1">>
                    /\ app'.state.UncommitKeys = Append(app.state.UncommitKeys, <<"A">>)
                    /\ app'.state.Size = app.state.Size + 1)]_vars
    /\ [][(/\ last.call = "DeliverTx" /\ last.routed
           /\ last.res.code \in {"DomainError", "WrongTransactionFormat"}
           /\ Fields(last.req)[2] = <<"+A1">>
           /\ Committed)
          => (LET acc == Accumulator(app.state) IN
              /\ Len(acc) >= 2 /\ Last2(acc) = <<"A", "1">>
              /\ app'.state.CommitStr = Sha256Hex(app.state.CommitStr \o acc)
              /\ last'.res.Data = app'.state.CommitStr)]_vars

\* a handler set A to 1 and returned a failure in the second block
C13_Witness ==
    /\ last.call = "DeliverTx" /\ alive /\ last.routed /\ commits = 1
    /\ last.req = B64(Envelope(<<"ExecFail">>, <<"+A1">>, <<"n">>))
    /\ last.res.code = "DomainError"
    /\ app.state.UncommitKeys = << <<"A">> >>
    /\ app.state.Size = 1
    /\ app.state.db.kv[prefixKey(<<"A">>)] = <<"1">>


----------------------------------------------------------------------------
(* C14 as claimed, for a transaction that is not of the validator variant: *)
(* CheckTx accepts it only if its bytes decode and the decoded string      *)
(* splits on '|' into exactly five fields that are all non-empty; it       *)
(* rejects when decoding fails, when the field count is not 5 (fewer or    *)
(* more), or when any of the five fields is empty.                         *)
C14_CheckTxExactlyFive ==
    (last.call = "CheckTx" /\ ~isValidatorTx(last.req)) =>
        LET dec == DecodeString(ReplaceSpaces(last.req))
            parts == Split(dec.str, "|")
        IN  last.res.accepted <=> (/\ ~dec.err
                                   /\ Len(parts) = 5
                                   /\ \A i \in 1..5 : parts[i] # <<>>)


----------------------------------------------------------------------------
(* C15: in every state reached after at least one Commit, AppHash equals   *)
(* the bytes of CommitStr; the Data a Commit returns equals the AppHash    *)
(* that Commit stored; an Info call made before the next Commit returns    *)
(* that Data as LastBlockAppHash and the Height that Commit set as         *)
(* LastBlockHeight; and Info changes nothing.                              *)
C15_InfoReportsLastCommit ==
    /\ [](commits >= 1 => app.state.AppHash = app.state.CommitStr)
    /\ []((last.call = "Commit" /\ alive) => last.res.Data = app.state.AppHash)
    /\ [][Called("Info") =>
            /\ app' = app /\ alive'
            /\ last'.res.LastBlockAppHash = app.state.AppHash
            /\ last'.res.LastBlockHeight = app.state.Height
            /\ (last.call = "Commit") => last'.res.LastBlockAppHash = last.res.Data]_vars
    /\ [][(commits >= 1 /\ ~Called("Commit")) =>
            /\ app'.state.AppHash = app.state.AppHash
            /\ app'.state.Height = app.state.Height]_vars

\* a block set A, its Commit returned, a DeliverTx followed, then Info
\* reported the committed digest and height 1
C15_Witness ==
    /\ last.call = "Info" /\ commits = 1 /\ calls = 4
    /\ last.res.LastBlockHeight = 1
    /\ last.res.LastBlockAppHash = Sha256Hex(<<"A", "1">>)
    /\ app.state.AppHash = app.state.CommitStr
    /\ app.state.UncommitKeys # <<>>


----------------------------------------------------------------------------
(* C17: BeginBlock resets ValUpdates to the empty list and changes nothing *)
(* else; EndBlock returns the current ValUpdates and modifies neither it   *)
(* nor any other state; between the two ValUpdates only grows at its end,  *)
(* and only in InitChain or a validator transaction, so an EndBlock        *)
(* returns exactly the updates appended since the most recent BeginBlock   *)
(* and a block with no validator transaction returns the empty list.       *)
C17_ValUpdatesPerBlock ==
    /\ [][Called("BeginBlock") =>
            (app' = [app EXCEPT !.ValUpdates = <<>>] /\ alive')]_vars
    /\ [][Called("EndBlock") =>
            (/\ app' = app /\ alive'
             /\ last'.res.ValidatorUpdates = app.ValUpdates)]_vars
    /\ [][~Called("BeginBlock") =>
            /\ IsPrefix(app.ValUpdates, app'.ValUpdates)
            /\ app'.ValUpdates # app.ValUpdates =>
                  \/ Called("InitChain")
                  \/ Called("DeliverTx") /\ isValidatorTx(last'.req)]_vars
    /\ [][(last.call = "BeginBlock" /\ Called("EndBlock")) =>
            last'.res.ValidatorUpdates = <<>>]_vars

\* InitChain added validator k1, the block removed it, and EndBlock
\* returned the removal alone
C17_Witness ==
    /\ last.call = "EndBlock" /\ calls = 4
    /\ last.res.ValidatorUpdates = <<[PubKey |-> "k1", Tok |-> "0", Power |-> 0]>>
    /\ app.ValUpdates = last.res.ValidatorUpdates


----------------------------------------------------------------------------
(* C20 as claimed: Size, the running count of live entries, is never       *)
(* negative in any state reached from an empty store by SetStateDB and     *)
(* DeleteStateDB calls, DeleteStateDB of an absent key included.           *)
C20_SizeNonNegative == app.state.Size >= 0


----------------------------------------------------------------------------
(* C19 as claimed: the state record a Commit persists is equivalent to the *)
(* in-memory state that Commit leaves behind: a node that reloads State    *)
(* from the record right after a Commit has the same Height, AppHash and   *)
(* CommitStr and an empty UncommitKeys, and the AppHash of its next Commit *)
(* is that of a replica that kept running without a restart.               *)
C19_ReloadEquivalent ==
    /\ last.call = "Restart" =>
          /\ app.state.Height = replica.state.Height
          /\ app.state.AppHash = replica.state.AppHash
          /\ app.state.CommitStr = replica.state.CommitStr
          /\ app.state.UncommitKeys = <<>>
    /\ (last.call = "Commit" /\ alive) => app.state.AppHash = replica.state.AppHash


----------------------------------------------------------------------------
\* the codes with which the AS handlers report a failure
FailureCodes ==
    {"UnmarshalError", "RequestIDNotFound", "RequestIsClosed", "RequestIsTimedOut",
     "NodeIDIsNotExistInASList", "ServiceIDNotFound", "MarshalError"}

\* this step is a DeliverTx that the router gave to the named handler
Handled(method) ==
    /\ Called("DeliverTx") /\ last'.routed
    /\ Fields(last'.req)[1] = method

\* the application changed by SetStateDB calls for exactly these keys, in order
OnlySet(keys) ==
    /\ app'.state.UncommitKeys = app.state.UncommitKeys \o keys
    /\ app'.state.Size = app.state.Size + Len(keys)
    /\ \A i \in 1..Len(keys) : DbHas(app'.state.db, prefixKey(keys[i]))
    /\ \A k \in DOMAIN app.state.db.kv :
          (\A i \in 1..Len(keys) : k # prefixKey(keys[i])) =>
              DbHas(app'.state.db, k) /\ app'.state.db.kv[k] = app.state.db.kv[k]
    /\ \A k \in DOMAIN app'.state.db.kv :
          DbHas(app.state.db, k) \/ \E i \in 1..Len(keys) : k = prefixKey(keys[i])
    /\ app' = [app EXCEPT !.state.db = app'.state.db,
                          !.state.UncommitKeys = app'.state.UncommitKeys,
                          !.state.Size = app'.state.Size]

(* C16: signData and registerServiceDestination mutate the store only on   *)
(* the success path. When either returns a failure code no SetStateDB call *)
(* has been made: Size, UncommitKeys and the store are unchanged. On OK    *)
(* signData appends exactly two keys, the request key and then the         *)
(* SignData key, and registerServiceDestination appends exactly one key.   *)
C16_HandlersWriteOnSuccessOnly ==
    [][/\ (Handled(<<"SignData">>) \/ Handled(<<"RegisterServiceDestination">>)) =>
             /\ alive'
             /\ last'.res.code \in FailureCodes \cup {"OK"}
             /\ last'.res.code \in FailureCodes => app' = app
       /\ (Handled(<<"SignData">>) /\ last'.res.code = "OK") =>
             LET p == UnmarshalSignDataParam(Fields(last'.req)[2]) IN
             OnlySet(<< <<"Request", "|", p.RequestID>>, <<"SignData", "|", p.Signature>> >>)
       /\ (Handled(<<"RegisterServiceDestination">>) /\ last'.res.code = "OK") =>
             LET p == UnmarshalRegisterServiceDestinationParam(Fields(last'.req)[2]) IN
             OnlySet(<< <<"ServiceDestination", "|", p.ServiceID>> >>)]_vars

\* signData succeeded, then a signData naming a service the request does
\* not ask for was turned down and left no trace
C16_Witness ==
    /\ last.call = "DeliverTx" /\ last.routed /\ alive
    /\ Fields(last.req)[1] = <<"SignData">>
    /\ last.res.code = "NodeIDIsNotExistInASList"
    /\ app.state.UncommitKeys = << <<"Request", "|", "r1">>, <<"SignData", "|", "sig1">> >>
    /\ app.state.Size = 3


----------------------------------------------------------------------------
\* one store call run alone
ApplyOp(a, tok) ==
    LET o == OpOf(tok) IN
    IF o.set THEN SetStateDB(a, o.key, o.value) ELSE DeleteStateDB(a, o.key)

(* C18 as claimed: store mutation is safe when two mutating calls are      *)
(* interleaved at the granularity of their individual steps: once both     *)
(* have finished no update is lost, UncommitKeys holds the keys of both    *)
(* calls and Size reflects both adjustments, exactly as in some serial     *)
(* order of the two calls.                                                 *)
C18_InterleavingIsSerial ==
    (\A g \in Goroutines : race[g].pc = "done" /\ race[g].tok # "") =>
        \/ app = ApplyOp(ApplyOp(replica, race["g1"].tok), race["g2"].tok)
        \/ app = ApplyOp(ApplyOp(replica, race["g2"].tok), race["g1"].tok)

====
